---- MODULE Spec2Model ----
(***************************************************************************)
(* Model of itss.py: the ITSS identity object (key, EC, AT, certificate    *)
(* cache), its persistence (store/load), the enrolment and authorization   *)
(* exchanges, and main(): the bootstrap sequence followed by the asyncio   *)
(* messaging loop (datagram_received / periodic_sender).                   *)
(*                                                                         *)
(* Byte strings are sequences of integer chunks of length DataLen.  A file *)
(* is a record [exists, readable, bytes].  A certificate is a record       *)
(* [Data, Digest]; the absent value None of a certificate field is         *)
(* NoneCert, of PrivateKey is NoneKey.                                     *)
(***************************************************************************)
EXTENDS Integers, Sequences, FiniteSets, TLC

\* ---------------------------------------------------------------- bounds
\* number of chunks a byte string is written in
DataLen == 2
\* number of distinct well-formed certificates in the world
NCerts == 2
\* number of distinct signing keys
NKeys == 2
\* number of loop callbacks explored after a bootstrap from a valid directory
MaxCalls == 2
\* number of loop callbacks explored after a bootstrap from any directory
MaxBootCalls == 1

\* number of method calls made on ITSS objects in one behaviour
MaxApiCalls == 4
MaxTime == 2

\* ------------------------------------------------------ program constants
\* b'strong-and-secret :-)' passed to BestAvailableEncryption in store()
StorePassword == 7
\* b'strong-and-secret :-)' passed to load_der_private_key in load()
LoadPassword == 7
\* sys.exit(1) in enroll() and authorize()
ExitRejected == 1

\* ------------------------------------------------------------ byte values
NoneKey == 0
Keys == 1..NKeys

NoneCert == [Data |-> <<>>, Digest |-> 0]

\* the byte string made of DataLen copies of chunk c
Bytes(c) == [j \in 1..DataLen |-> c]

\* encoded certificate number i; chunk 0 is bytes that are no certificate
CertData(i) == Bytes(i)
Garbage == Bytes(0)

\* Certificate.Digest: a content hash of the encoded certificate
DigestOf(raw) == 40 + raw[1]

WellFormed(raw) ==
    /\ Len(raw) = DataLen
    /\ raw[1] \in 1..NCerts
    /\ \A j \in 1..Len(raw) : raw[j] = raw[1]

\* itss.CITS103097v121Certificate(raw): parses raw; raises on bytes that are
\* not an encoded certificate
CITS103097v121Certificate(raw) ==
    IF WellFormed(raw)
    THEN [raised |-> FALSE, cert |-> [Data |-> raw, Digest |-> DigestOf(raw)]]
    ELSE [raised |-> TRUE, cert |-> NoneCert]

Cert(i) == CITS103097v121Certificate(CertData(i)).cert
AllCerts == {Cert(i) : i \in 1..NCerts}
Digests == {c.Digest : c \in AllCerts}

\* bytes.hex() of a digest, used as the stem of the cache file name
Hex(d) == 16 * d
HexNames == {Hex(d) : d \in Digests}

\* PrivateKey.private_bytes(DER, PKCS8, BestAvailableEncryption(password))
KeyChunk(k, password) == 100 + 10 * password + k
private_bytes(k, password) == Bytes(KeyChunk(k, password))

\* load_der_private_key(data, password): raises unless data is a complete
\* PKCS8 blob encrypted under password
load_der_private_key(data, password) ==
    IF /\ Len(data) = DataLen
       /\ \E k \in Keys : \A j \in 1..Len(data) : data[j] = KeyChunk(k, password)
    THEN [raised |-> FALSE,
          key |-> CHOOSE k \in Keys : data[1] = KeyChunk(k, password)]
    ELSE [raised |-> TRUE, key |-> NoneKey]

\* ------------------------------------------------------------ file system
Absent == [exists |-> FALSE, readable |-> FALSE, bytes |-> <<>>]
File(b) == [exists |-> TRUE, readable |-> TRUE, bytes |-> b]
Unreadable(b) == [exists |-> TRUE, readable |-> FALSE, bytes |-> b]

FileNames == {"itss.key", "itss.ec", "itss.at"}

\* open(path, 'rb').read()
open_rb(f) ==
    IF ~f.exists THEN [exc |-> "FileNotFoundError", data |-> <<>>]
    ELSE IF ~f.readable THEN [exc |-> "PermissionError", data |-> <<>>]
    ELSE [exc |-> "none", data |-> f.bytes]

\* open(path, 'wb').write(x): creates the file or truncates it, then writes
open_wb_write(f, x) ==
    [exists |-> TRUE, readable |-> (IF f.exists THEN f.readable ELSE TRUE),
     bytes |-> x]

\* open(path, 'wb') alone: the file exists and is empty
open_wb(f) ==
    [exists |-> TRUE, readable |-> (IF f.exists THEN f.readable ELSE TRUE),
     bytes |-> <<>>]

\* os.unlink(path)
unlink(f) ==
    IF f.exists THEN [exc |-> "none", file |-> Absent]
    ELSE [exc |-> "FileNotFoundError", file |-> f]

\* ------------------------------------------------------- the ITSS object
EngineNone == "None"
Engines == {EngineNone, "pkcs11"}

\* lines 75-76 with the assignment to self.AT forgotten
generate_private_key_keeps_AT(engine, newkey, key, ec, at) ==
    IF engine = EngineNone
    THEN [raised |-> FALSE, PrivateKey |-> newkey, EC |-> NoneCert, AT |-> at]
    ELSE [raised |-> TRUE, PrivateKey |-> key, EC |-> ec, AT |-> at]

\* ITSS.generate_private_key: a software key newkey is generated only when
\* no engine is configured; otherwise RuntimeError is raised before the
\* credentials are cleared
generate_private_key(engine, newkey, key, ec, at) ==
    IF engine = EngineNone
    THEN [raised |-> FALSE, PrivateKey |-> newkey, EC |-> NoneCert, AT |-> NoneCert]
    ELSE [raised |-> TRUE, PrivateKey |-> key, EC |-> ec, AT |-> at]

\* load(), lines 299-320: the key from the engine (openssl_assert raises
\* when the token has no such object) or from itss.key (any failure is
\* swallowed by the bare except and becomes return False)
load_key(engine, hsmkey, fs) ==
    IF engine # EngineNone
    THEN IF hsmkey = NoneKey
         THEN [outcome |-> "raise", key |-> NoneKey]
         ELSE [outcome |-> "ok", key |-> hsmkey]
    ELSE LET r == open_rb(fs["itss.key"])
             k == load_der_private_key(r.data, LoadPassword)
         IN  IF r.exc # "none" \/ k.raised
             THEN [outcome |-> "false", key |-> NoneKey]
             ELSE [outcome |-> "ok", key |-> k.key]

\* load(), lines 322-327 and 329-334: one certificate file; only
\* FileNotFoundError is caught, and the parse runs in the else branch
load_cert(f) ==
    LET r == open_rb(f)
        c == CITS103097v121Certificate(r.data)
    IN  IF r.exc = "FileNotFoundError" THEN [raised |-> FALSE, cert |-> NoneCert]
        ELSE IF r.exc # "none" THEN [raised |-> TRUE, cert |-> NoneCert]
        ELSE IF c.raised THEN [raised |-> TRUE, cert |-> NoneCert]
        ELSE [raised |-> FALSE, cert |-> c.cert]

\* ITSS.load: outcome is "true", "false" or "raise"; the fields are those
\* the object is left with
load(engine, hsmkey, fs, key, ec, at) ==
    LET k == load_key(engine, hsmkey, fs)
        e == load_cert(fs["itss.ec"])
        a == load_cert(fs["itss.at"])
    IN  IF key # NoneKey \/ ec # NoneCert \/ at # NoneCert
        THEN [outcome |-> "raise", PrivateKey |-> key, EC |-> ec, AT |-> at]
        ELSE IF k.outcome # "ok"
        THEN [outcome |-> k.outcome, PrivateKey |-> NoneKey, EC |-> NoneCert, AT |-> NoneCert]
        ELSE IF e.raised
        THEN [outcome |-> "raise", PrivateKey |-> k.key, EC |-> NoneCert, AT |-> NoneCert]
        ELSE IF a.raised
        THEN [outcome |-> "raise", PrivateKey |-> k.key, EC |-> e.cert, AT |-> NoneCert]
        ELSE [outcome |-> "true", PrivateKey |-> k.key, EC |-> e.cert, AT |-> a.cert]

\* store(), lines 273-281: the key file (nothing on an engine)
store_key(engine, key, fs) ==
    IF engine # EngineNone THEN [raised |-> FALSE, files |-> fs]
    ELSE IF key = NoneKey THEN [raised |-> TRUE, files |-> fs]
    ELSE [raised |-> FALSE,
          files |-> [fs EXCEPT !["itss.key"] =
                        open_wb_write(@, private_bytes(key, StorePassword))]]

\* store(), lines 283-286 and 288-291: write the certificate, or unlink
\* its file; os.unlink raises FileNotFoundError when there is no file
store_cert(name, cert, fs) ==
    IF cert # NoneCert
    THEN [raised |-> FALSE, files |-> [fs EXCEPT ![name] = open_wb_write(@, cert.Data)]]
    ELSE LET u == unlink(fs[name])
         IN  [raised |-> u.exc # "none", files |-> [fs EXCEPT ![name] = u.file]]

\* ITSS.store: the three parts in order; an exception ends the call
store(engine, key, ec, at, fs) ==
    LET k == store_key(engine, key, fs)
        e == store_cert("itss.ec", ec, k.files)
        a == store_cert("itss.at", at, e.files)
    IN  IF k.raised THEN k
        ELSE IF e.raised THEN e
        ELSE a

\* ------------------------------------------------- certificate resolution
\* what the AA answers to GET /cits/digest/{hex}: requests.get raises
\* (exc), or returns some content, which need not be the certificate asked
\* for nor a certificate at all
RemoteResponses ==
    {[exc |-> TRUE, content |-> <<>>]}
        \cup {[exc |-> FALSE, content |-> CertData(i)] : i \in 0..NCerts}

EmptyCerts == [d \in Digests |-> NoneCert]

\* ITSS.store_certificate: the file is named after the certificate's own
\* digest
store_certificate(cdir, certificate) ==
    [cdir EXCEPT ![Hex(certificate.Digest)] = open_wb_write(@, certificate.Data)]

\* line 363 keyed by the digest of the certificate obtained
Certs_put_by_own_digest(certs, digest, cert) == [certs EXCEPT ![cert.Digest] = cert]

\* get_certificate_by_digest, lines 363-364: the memory tier is keyed by
\* the digest that was asked for
Certs_put(certs, digest, cert) == [certs EXCEPT ![digest] = cert]

\* what the AA's answer is: no answer (requests.get raises), bytes that
\* are no certificate, or a certificate
answer(remote) ==
    IF remote.exc THEN "error"
    ELSE IF remote.content = Garbage THEN "garbage"
    ELSE "certificate"

\* lines 359-361 with the answer written to the disk tier before it is
\* parsed
remote_tier_stores_first(certs, cdir, digest, remote) ==
    LET c == CITS103097v121Certificate(remote.content)
    IN  IF remote.exc
        THEN [raised |-> TRUE, cert |-> NoneCert, Certs |-> certs,
              certs_dir |-> cdir, gets |-> 1, reads |-> 1]
        ELSE IF c.raised
        THEN [raised |-> TRUE, cert |-> NoneCert, Certs |-> certs,
              certs_dir |-> [cdir EXCEPT ![Hex(digest)] =
                                open_wb_write(@, remote.content)],
              gets |-> 1, reads |-> 1]
        ELSE [raised |-> FALSE, cert |-> c.cert,
              Certs |-> Certs_put(certs, digest, c.cert),
              certs_dir |-> store_certificate(cdir, c.cert),
              gets |-> 1, reads |-> 1]

\* get_certificate_by_digest, lines 353-361 when the file is not found:
\* GET, parse, store_certificate
remote_tier(certs, cdir, digest, remote) ==
    LET c == CITS103097v121Certificate(remote.content)
    IN  IF remote.exc \/ c.raised
        THEN [raised |-> TRUE, cert |-> NoneCert, Certs |-> certs,
              certs_dir |-> cdir, gets |-> 1, reads |-> 1]
        ELSE [raised |-> FALSE, cert |-> c.cert,
              Certs |-> Certs_put(certs, digest, c.cert),
              certs_dir |-> store_certificate(cdir, c.cert),
              gets |-> 1, reads |-> 1]

\* ITSS.get_certificate_by_digest: memory, then the file
\* certs/{hex}.cert, then the AA; gets and reads count the remote GETs and
\* the file opens the call made
get_certificate_by_digest(certs, cdir, digest, remote) ==
    LET r == open_rb(cdir[Hex(digest)])
        c == CITS103097v121Certificate(r.data)
    IN  IF certs[digest] # NoneCert
        THEN [raised |-> FALSE, cert |-> certs[digest], Certs |-> certs,
              certs_dir |-> cdir, gets |-> 0, reads |-> 0]
        ELSE IF r.exc = "FileNotFoundError"
        THEN remote_tier(certs, cdir, digest, remote)
        ELSE IF r.exc # "none" \/ c.raised
        THEN [raised |-> TRUE, cert |-> NoneCert, Certs |-> certs,
              certs_dir |-> cdir, gets |-> 0, reads |-> 1]
        ELSE [raised |-> FALSE, cert |-> c.cert,
              Certs |-> Certs_put(certs, digest, c.cert),
              certs_dir |-> cdir, gets |-> 0, reads |-> 1]

\* ------------------------------------------------ enrolment, authorization
\* what the EA answers to the enrolment request: requests.put or the
\* decoding raises (exc), or one variant of EnrolmentResponse; a decoded
\* successfulEnrolment carries a certificate chain
EnrolmentVariants == {"successfulEnrolment", "removedEnrolment", "failedEnrolment"}
EnrolmentResponses ==
    {[exc |-> TRUE, variant |-> "none", rootCertificate |-> <<>>]}
        \cup {[exc |-> FALSE, variant |-> "successfulEnrolment",
               rootCertificate |-> CertData(i)] : i \in 1..NCerts}
        \cup {[exc |-> FALSE, variant |-> v, rootCertificate |-> <<>>] :
                 v \in EnrolmentVariants \ {"successfulEnrolment"}}

\* line 181 testing for failedEnrolment only
enrol_accepted_loose(variant) == variant # "failedEnrolment"

\* enroll(), line 181: the variants that are accepted
enrol_accepted(variant) == variant = "successfulEnrolment"

\* enroll with the sys.exit(1) of line 184 left out: a rejection is reported
\* and the call returns
enroll_no_exit(key, ec, response) ==
    IF key = NoneKey THEN [outcome |-> "raise", EC |-> ec, sent |-> 0]
    ELSE IF response.exc THEN [outcome |-> "raise", EC |-> ec, sent |-> 1]
    ELSE IF response.variant # "successfulEnrolment"
    THEN [outcome |-> "ok", EC |-> ec, sent |-> 1]
    ELSE [outcome |-> "ok", sent |-> 1,
          EC |-> CITS103097v121Certificate(response.rootCertificate).cert]

\* ITSS.enroll: outcome "ok", "exit" (sys.exit(1)) or "raise"; sent is the
\* number of requests put to the EA
enroll(key, ec, response) ==
    IF key = NoneKey THEN [outcome |-> "raise", EC |-> ec, sent |-> 0]
    ELSE IF response.exc THEN [outcome |-> "raise", EC |-> ec, sent |-> 1]
    ELSE IF ~enrol_accepted(response.variant)
    THEN [outcome |-> "exit", EC |-> ec, sent |-> 1]
    ELSE [outcome |-> "ok", sent |-> 1,
          EC |-> CITS103097v121Certificate(response.rootCertificate).cert]

AuthorizationVariants ==
    {"successfulExplicitAuthorization", "successfulImplicitAuthorization",
     "failedAuthorization"}
AuthorizationResponses ==
    {[exc |-> TRUE, variant |-> "none", rootCertificate |-> <<>>]}
        \cup {[exc |-> FALSE, variant |-> v, rootCertificate |-> CertData(i)] :
                 v \in {"successfulExplicitAuthorization",
                        "successfulImplicitAuthorization"}, i \in 1..NCerts}
        \cup {[exc |-> FALSE, variant |-> "failedAuthorization",
               rootCertificate |-> <<>>]}

\* line 260 accepting the explicit variant only
auth_accepted_explicit_only(variant) == variant = "successfulExplicitAuthorization"

\* authorize(), line 260: the variants that are accepted
auth_accepted(variant) ==
    variant \in {"successfulExplicitAuthorization", "successfulImplicitAuthorization"}

\* ITSS.authorize: as enroll; the request names the EC by its digest
\* (self.EC.Digest raises when there is no EC)
authorize(key, ec, at, response) ==
    IF ec = NoneCert \/ key = NoneKey
    THEN [outcome |-> "raise", AT |-> at, sent |-> 0, digest |-> 0]
    ELSE IF response.exc
    THEN [outcome |-> "raise", AT |-> at, sent |-> 1, digest |-> ec.Digest]
    ELSE IF ~auth_accepted(response.variant)
    THEN [outcome |-> "exit", AT |-> at, sent |-> 1, digest |-> ec.Digest]
    ELSE [outcome |-> "ok", sent |-> 1, digest |-> ec.Digest,
          AT |-> CITS103097v121Certificate(response.rootCertificate).cert]

\* ------------------------------------------------- the requests, encoded
\* request times, in seconds since 2004-01-01 (lines 96, 191)
Times == 1..MaxTime

\* line 97: expiration = requestTime + 3600
ValidityWindow == 3600

\* the context tags of lines 154, 155 and 173 (0xa0, 0xa1, 0xa2) and the
\* tag of a SEQUENCE (0x30), as byte values
TagSignerIdentifier == 160
TagToBeSigned == 161
TagSignature == 162
TagSEQUENCE == 48

\* line 106: the signer digest of an enrolment request, b'12345678'
EnrolSignerDigest == 12345678

\* self.asn1.encode(type, value): the tag of the type, then the fields
asn1_encode(fields) == <<TagSEQUENCE>> \o fields

\* struct.pack(">B", tag) + encoded[1:]: the first byte replaced by a
\* context tag
Tagged(tag, encoded) == <<tag>> \o Tail(encoded)

\* itss.encode_der_length, itss.encode_der_SEQUENCE
encode_der_length(n) == <<n>>
encode_der_SEQUENCE(data) == <<TagSEQUENCE>> \o encode_der_length(Len(data)) \o data

\* the public numbers of the key (lines 85-86), as one value
public_numbers(key) == 200 + key

\* PrivateKey.sign(data, ECDSA(SHA256)): a signature stands for the key
\* and the data it was made over
sign(key, data) == <<key>> \o data

\* lines 101-107 and 197-201: the signer identifier of the request
signerEnrolRequest == [type |-> 3, digest |-> EnrolSignerDigest]
signerAuthRequest(ec) == [type |-> 3, digest |-> ec.Digest]

\* lines 108-150: the to-be-signed enrolment certificate request; line 97
\* computes expiration and line 125 sets the field from requestTime
enrolCertRequest(key, requestTime) ==
    [versionAndType |-> 2, requestTime |-> requestTime, subjectType |-> 3,
     expiration |-> requestTime, verificationKey |-> public_numbers(key)]

\* lines 203-228: the to-be-signed authorization certificate request
authCertRequest(requestTime) ==
    [versionAndType |-> 2, requestTime |-> requestTime, subjectType |-> 0]

\* lines 154 and 232: the tagged signer-identifier block
signer_block(signer) ==
    Tagged(TagSignerIdentifier, asn1_encode(<<signer.type, signer.digest>>))

\* lines 155 and 233-234: the tagged to-be-signed block; the
\* authorization request is tagged, length-prefixed and tagged again
tbs_block(kind, tbs) ==
    IF kind = "enroll"
    THEN Tagged(TagToBeSigned,
                asn1_encode(<<tbs.versionAndType, tbs.requestTime, tbs.subjectType,
                              tbs.expiration, tbs.verificationKey>>))
    ELSE LET acr == Tagged(TagSignerIdentifier,
                           asn1_encode(<<tbs.versionAndType, tbs.requestTime,
                                         tbs.subjectType>>))
         IN  <<TagToBeSigned>> \o encode_der_length(Len(acr)) \o acr

\* the signature made over the to-be-signed block alone
signed_data_payload_only(signer, tbs) == tbs

\* the value of encoded_er (encoded_ar) at lines 158 and 237, which is
\* what is signed: the two blocks of lines 153-155 (231-234)
signed_data(signer, tbs) == signer \o tbs

\* lines 166-175 and 245-254: the signature block is appended and the
\* whole wrapped as a SEQUENCE
signature_block(signature) == Tagged(TagSignature, asn1_encode(signature))

\* ------------------------------------------------------ inbound messages
\* a datagram: whether it parses as a secure message, the digest of the
\* signer it claims, and whether its signature verifies under the
\* certificate resolved for that digest
Datagrams == [parse_ok : BOOLEAN, signer : Digests, sig_ok : BOOLEAN]

\* an except clause that catches the parse failure only
catches_parse_only(exc) == exc = "ParseError"

\* datagram_received, lines 422-424: every failure of the three steps is a
\* subclass of Exception and is caught by the except clause
catches(exc) == exc \in {"ParseError", "ResolveError", "VerifyError"}

\* datagram_received, lines 418-421: CITS103097v121SecureMessage(data),
\* msg.verify(itss_obj) (which resolves the signer's certificate through
\* get_certificate_by_digest), and the report of the payload
try_datagram(certs, cdir, data, remote) ==
    LET g == get_certificate_by_digest(certs, cdir, data.signer, remote)
        unchanged == [raised |-> FALSE, cert |-> NoneCert, Certs |-> certs,
                      certs_dir |-> cdir, gets |-> 0, reads |-> 0]
    IN  IF ~data.parse_ok THEN [exc |-> "ParseError", g |-> unchanged]
        ELSE IF g.raised THEN [exc |-> "ResolveError", g |-> g]
        ELSE IF ~data.sig_ok THEN [exc |-> "VerifyError", g |-> g]
        ELSE [exc |-> "none", g |-> g]

\* the outcome of one call of datagram_received
handled(exc) ==
    IF exc = "none" THEN "reported"
    ELSE IF catches(exc) THEN "caught"
    ELSE "propagated"

\* ------------------------------------------------------------------ state
VARIABLES
    PrivateKey,     \* self.PrivateKey
    EC,             \* self.EC
    AT,             \* self.AT
    Engine,         \* self.Engine: EngineNone or the pkcs11 engine
    Certs,          \* self.Certs, the memory tier
    hsm,            \* the key object held by the token, NoneKey if none
    files,          \* itss.key, itss.ec, itss.at under self.Directory
    certs_dir,      \* the files {hex}.cert under self.Directory/certs
    pc,             \* position of main(), "api" when the methods are called directly
    ok,             \* main's local ok
    store_flag,     \* main's local store
    exit_status,    \* exit status of the process, -1 while it runs
    ea_requests,    \* number of requests put to the EA
    aa_requests,    \* number of requests put to the AA
    remote_gets,    \* number of GETs of a certificate by digest
    disk_reads,     \* number of opens of a file of the disk tier
    budget,         \* number of budget / callbacks still to be explored
    sender_alive,   \* the periodic_sender task exists and has not ended
    last,           \* the last operation: its inputs, outcome and prior state
    wpc,            \* position of a store() running step by step
    wchunk,         \* chunks written so far into the file being written
    seen,           \* what the concurrent reader read last
    blocked,        \* the datagram whose handler waits in requests.get
    run             \* the enroll() or authorize() call taken step by step

vars == <<PrivateKey, EC, AT, Engine, Certs, hsm, files, certs_dir, pc, ok,
          store_flag, exit_status, ea_requests, aa_requests, remote_gets,
          disk_reads, budget, sender_alive, last, wpc, wchunk, seen, blocked,
          run>>

object == <<PrivateKey, EC, AT, Engine, Certs>>
counters == <<ea_requests, aa_requests, remote_gets, disk_reads>>
writer == <<wpc, wchunk, seen>>
steps == <<blocked, run>>

Pre == [PrivateKey |-> PrivateKey, EC |-> EC, AT |-> AT, files |-> files]

\* the record of an operation without its history
Strip(l) ==
    [op |-> l.op, outcome |-> l.outcome, exc |-> l.exc, arg |-> l.arg,
     cert |-> l.cert, variant |-> l.variant, gets |-> l.gets, reads |-> l.reads]

\* the record kept of an operation: its name, its outcome, the exception
\* raised inside it ("none" if none), its argument, the certificate it
\* produced, the response variant it received, the remote GETs and file
\* opens it made, the identity and files before it, and the operation
\* before it
Op(op, outcome, exc, arg, cert, variant, gets, reads) ==
    [op |-> op, outcome |-> outcome, exc |-> exc, arg |-> arg, cert |-> cert,
     variant |-> variant, gets |-> gets, reads |-> reads, pre |-> Pre,
     prev |-> Strip(last)]

NoOp ==
    [op |-> "none", outcome |-> "none", exc |-> "none", arg |-> 0,
     cert |-> NoneCert, variant |-> "none", gets |-> 0, reads |-> 0]

Raised(b) == IF b THEN "Exception" ELSE "none"

NoSeen == [name |-> "none", file |-> Absent]

\* no call of enroll() or authorize() has been taken step by step
NoRun ==
    [kind |-> "none", pos |-> "idle", trace |-> <<>>, requestTime |-> 0,
     signer |-> <<>>, tbs |-> <<>>, encoded |-> <<>>, signed |-> <<>>,
     signature |-> <<>>, sent |-> <<>>, puts |-> 0, response |-> <<>>]

\* no datagram is being handled
NoDatagram == [parse_ok |-> FALSE, signer |-> 0, sig_ok |-> FALSE]

\* the states a persisted file can be found in at startup
KeyFileStates ==
    {Absent, File(Garbage), Unreadable(private_bytes(1, StorePassword)),
     File(private_bytes(1, StorePassword))}
CertFileStates(i) ==
    {Absent, File(Garbage), Unreadable(CertData(i)), File(CertData(i))}
CacheFileStates(d) ==
    {Absent, File(Garbage)} \cup {File(c.Data) : c \in {x \in AllCerts : x.Digest = d}}

InitFiles ==
    {f \in [FileNames -> KeyFileStates \cup CertFileStates(1) \cup CertFileStates(2)] :
        /\ f["itss.key"] \in KeyFileStates
        /\ f["itss.ec"] \in CertFileStates(1)
        /\ f["itss.at"] \in CertFileStates(2)}

InitCertsDir ==
    {c \in [HexNames -> UNION {CacheFileStates(d) : d \in Digests}] :
        \A d \in Digests : c[Hex(d)] \in CacheFileStates(d)}

\* ITSS.__init__ (lines 31-63) on a directory in any state: the fields are
\* None and the cache empty.  Lines 48-63 install the pkcs11 engine; the
\* branches on self.Engine in generate_private_key, store and load are the
\* two backends, so the backend is a parameter of the configuration: a
\* token (with or without the key object) and no itss.key with the engine,
\* an itss.key in any state and no token without it.
InitObject ==
    /\ PrivateKey = NoneKey
    /\ EC = NoneCert
    /\ AT = NoneCert
    /\ Engine \in Engines
    /\ Certs = EmptyCerts
    /\ hsm \in (IF Engine = EngineNone THEN {NoneKey} ELSE {NoneKey, 1})
    /\ files \in {f \in InitFiles : Engine # EngineNone => f["itss.key"] = Absent}
    /\ ea_requests = 0
    /\ aa_requests = 0
    /\ remote_gets = 0
    /\ disk_reads = 0
    /\ ok = FALSE
    /\ store_flag = FALSE
    /\ exit_status = -1
    /\ sender_alive = FALSE
    /\ last = [op |-> "none", outcome |-> "none", exc |-> "none", arg |-> 0,
               cert |-> NoneCert, variant |-> "none", gets |-> 0, reads |-> 0,
               pre |-> [PrivateKey |-> NoneKey, EC |-> NoneCert, AT |-> NoneCert,
                        files |-> files],
               prev |-> NoOp]
    /\ wpc = "idle"
    /\ wchunk = 0
    /\ seen = NoSeen
    /\ blocked = NoDatagram
    /\ run = NoRun

\* ------------------------------------------------------------------ main()
NoCacheFiles == [h \in HexNames |-> Absent]

\* the persisted identity every part of which is present and valid
ValidFiles ==
    [n \in FileNames |->
        IF n = "itss.key" THEN File(private_bytes(1, StorePassword))
        ELSE IF n = "itss.ec" THEN File(CertData(1))
        ELSE File(CertData(2))]

\* the bootstrap never touches certs/ and the loop never touches the
\* identity files: Init varies the identity files over an empty certs/,
\* InitLoop varies certs/ over a directory whose identity is all valid
Init ==
    /\ InitObject
    /\ certs_dir = NoCacheFiles
    /\ budget = MaxBootCalls
    /\ pc = "load"

InitLoop ==
    /\ InitObject
    /\ files = (IF Engine = EngineNone THEN ValidFiles
                ELSE [ValidFiles EXCEPT !["itss.key"] = Absent])
    /\ hsm = (IF Engine = EngineNone THEN NoneKey ELSE 1)
    /\ certs_dir \in InitCertsDir
    /\ budget = MaxCalls
    /\ pc = "load"

\* an uncaught exception ends the process with a traceback and status 1
Uncaught ==
    /\ pc' = "exited"
    /\ exit_status' = 1

\* lines 390-392: itss_obj = ITSS(...); ok = itss_obj.load(); store = False
main_load ==
    /\ pc = "load"
    /\ LET r == load(Engine, hsm, files, PrivateKey, EC, AT)
       IN  /\ PrivateKey' = r.PrivateKey
           /\ EC' = r.EC
           /\ AT' = r.AT
           /\ last' = Op("load", r.outcome, Raised(r.outcome = "raise"), 0, NoneCert, "none", 0, 0)
           /\ IF r.outcome = "raise"
              THEN Uncaught /\ UNCHANGED ok
              ELSE /\ pc' = "if_not_ok"
                   /\ ok' = (r.outcome = "true")
                   /\ UNCHANGED exit_status
    /\ store_flag' = FALSE
    /\ UNCHANGED <<steps, Engine, Certs, hsm, files, certs_dir, counters, budget,
                   sender_alive, writer>>

\* lines 393-395
main_if_not_ok ==
    /\ pc = "if_not_ok"
    /\ IF ok
       THEN /\ pc' = "if_EC_None"
            /\ UNCHANGED <<PrivateKey, EC, AT, store_flag, exit_status, last>>
       ELSE \E newkey \in Keys :
              LET g == generate_private_key(Engine, newkey, PrivateKey, EC, AT)
              IN  /\ PrivateKey' = g.PrivateKey
                  /\ EC' = g.EC
                  /\ AT' = g.AT
                  /\ last' = Op("generate_private_key", IF g.raised THEN "raise" ELSE "ok",
                                Raised(g.raised), newkey, NoneCert, "none", 0, 0)
                  /\ IF g.raised
                     THEN Uncaught /\ UNCHANGED store_flag
                     ELSE /\ pc' = "if_EC_None"
                          /\ store_flag' = TRUE
                          /\ UNCHANGED exit_status
    /\ UNCHANGED <<steps, Engine, Certs, hsm, files, certs_dir, ok, counters, budget,
                   sender_alive, writer>>

\* what a call that may end the process does to pc and exit_status
Ends(outcome, next) ==
    IF outcome = "ok" THEN pc' = next /\ UNCHANGED exit_status
    ELSE IF outcome = "exit" THEN pc' = "exited" /\ exit_status' = ExitRejected
    ELSE Uncaught

\* lines 397-399 with the EC written to itss.ec as soon as it is obtained
main_if_EC_None_persisting ==
    /\ pc = "if_EC_None"
    /\ IF EC # NoneCert
       THEN /\ pc' = "if_AT_None"
            /\ UNCHANGED <<EC, store_flag, exit_status, last, ea_requests, files>>
       ELSE \E response \in EnrolmentResponses :
              LET e == enroll(PrivateKey, EC, response)
              IN  /\ EC' = e.EC
                  /\ ea_requests' = ea_requests + e.sent
                  /\ last' = Op("enroll", e.outcome, Raised(e.outcome = "raise"), 0, e.EC,
                                response.variant, 0, 0)
                  /\ Ends(e.outcome, "if_AT_None")
                  /\ store_flag' = (IF e.outcome = "ok" THEN TRUE ELSE store_flag)
                  /\ files' = (IF e.outcome = "ok"
                               THEN store_cert("itss.ec", e.EC, files).files
                               ELSE files)
    /\ UNCHANGED <<steps, PrivateKey, AT, Engine, Certs, hsm, certs_dir, ok,
                   aa_requests, remote_gets, disk_reads, budget, sender_alive, writer>>

\* lines 397-399
main_if_EC_None ==
    /\ pc = "if_EC_None"
    /\ IF EC # NoneCert
       THEN /\ pc' = "if_AT_None"
            /\ UNCHANGED <<EC, store_flag, exit_status, last, ea_requests>>
       ELSE \E response \in EnrolmentResponses :
              LET e == enroll(PrivateKey, EC, response)
              IN  /\ EC' = e.EC
                  /\ ea_requests' = ea_requests + e.sent
                  /\ last' = Op("enroll", e.outcome, Raised(e.outcome = "raise"), 0, e.EC,
                                response.variant, 0, 0)
                  /\ Ends(e.outcome, "if_AT_None")
                  /\ store_flag' = (IF e.outcome = "ok" THEN TRUE ELSE store_flag)
    /\ UNCHANGED <<steps, PrivateKey, AT, Engine, Certs, hsm, files, certs_dir, ok,
                   aa_requests, remote_gets, disk_reads, budget, sender_alive, writer>>

\* lines 401-403
main_if_AT_None ==
    /\ pc = "if_AT_None"
    /\ IF AT # NoneCert
       THEN /\ pc' = "if_store"
            /\ UNCHANGED <<AT, store_flag, exit_status, last, aa_requests>>
       ELSE \E response \in AuthorizationResponses :
              LET a == authorize(PrivateKey, EC, AT, response)
              IN  /\ AT' = a.AT
                  /\ aa_requests' = aa_requests + a.sent
                  /\ last' = Op("authorize", a.outcome, Raised(a.outcome = "raise"),
                                a.digest, a.AT, response.variant, 0, 0)
                  /\ Ends(a.outcome, "if_store")
                  /\ store_flag' = (IF a.outcome = "ok" THEN TRUE ELSE store_flag)
    /\ UNCHANGED <<steps, PrivateKey, EC, Engine, Certs, hsm, files, certs_dir, ok,
                   ea_requests, remote_gets, disk_reads, budget, sender_alive, writer>>

\* lines 405-406
main_if_store ==
    /\ pc = "if_store"
    /\ IF ~store_flag
       THEN /\ pc' = "identity"
            /\ UNCHANGED <<files, exit_status, last>>
       ELSE LET s == store(Engine, PrivateKey, EC, AT, files)
            IN  /\ files' = s.files
                /\ last' = Op("store", IF s.raised THEN "raise" ELSE "ok", Raised(s.raised),
                              0, NoneCert, "none", 0, 0)
                /\ Ends(IF s.raised THEN "raise" ELSE "ok", "identity")
    /\ UNCHANGED <<steps, object, hsm, certs_dir, ok, store_flag, counters, budget,
                   sender_alive, writer>>

\* lines 408-440: the identity is reported (EC.identity(), AT.Digest raise
\* on None), the simulator with the inbound handler is created, and
\* periodic_sender is scheduled; line 443 runs the loop
main_start_loop ==
    /\ pc = "identity"
    /\ IF EC = NoneCert \/ AT = NoneCert
       THEN Uncaught /\ UNCHANGED sender_alive
       ELSE /\ pc' = "loop"
            /\ sender_alive' = TRUE
            /\ UNCHANGED exit_status
    /\ UNCHANGED <<steps, object, hsm, files, certs_dir, ok, store_flag, counters,
                   budget, last, writer>>

\* ------------------------------------------------------ the messaging loop
\* the body of datagram_received, lines 418-424, for one datagram and one
\* answer of the AA (asked only when memory and disk miss)
Handle(data, remote) ==
    LET t == try_datagram(Certs, certs_dir, data, remote)
    IN  /\ Certs' = t.g.Certs
        /\ certs_dir' = t.g.certs_dir
        /\ remote_gets' = remote_gets + t.g.gets
        /\ disk_reads' = disk_reads + t.g.reads
        /\ last' = Op("datagram_received", handled(t.exc), t.exc,
                      IF data.parse_ok THEN data.signer ELSE 0,
                      t.g.cert, "none", t.g.gets, t.g.reads)

\* MyG5Simulator.datagram_received, lines 417-424, run to completion by the
\* event loop for one datagram
datagram_received ==
    /\ pc = "loop"
    /\ budget > 0
    /\ blocked = NoDatagram
    /\ \E data \in Datagrams, remote \in RemoteResponses : Handle(data, remote)
    /\ budget' = budget - 1
    /\ UNCHANGED <<steps, PrivateKey, EC, AT, Engine, hsm, files, pc, ok, store_flag,
                   exit_status, ea_requests, aa_requests, sender_alive, writer>>

\* periodic_sender, lines 430-436: one iteration of the while loop, run by
\* the event loop when the thread is not inside a callback; the builder
\* needs the AT and the key, and an exception raised by finish() or send()
\* ends the task
periodic_sender ==
    /\ pc = "loop"
    /\ sender_alive
    /\ budget > 0
    /\ blocked = NoDatagram
    /\ \E send_ok \in BOOLEAN :
         LET sent == AT # NoneCert /\ PrivateKey # NoneKey /\ send_ok
         IN  /\ sender_alive' = sent
             /\ last' = Op("periodic_sender", IF sent THEN "sent" ELSE "raise",
                           Raised(~sent), PrivateKey, AT, "none", 0, 0)
    /\ budget' = budget - 1
    /\ UNCHANGED <<steps, object, hsm, files, certs_dir, pc, ok, store_flag,
                   exit_status, counters, writer>>

\* lines 442-447: KeyboardInterrupt stops run_forever; the loop is closed
keyboard_interrupt ==
    /\ pc = "loop"
    /\ pc' = "closed"
    /\ exit_status' = 0
    /\ sender_alive' = FALSE
    /\ UNCHANGED <<steps, object, hsm, files, certs_dir, ok, store_flag, counters,
                   budget, last, writer>>

Next ==
    \/ main_load
    \/ main_if_not_ok
    \/ main_if_EC_None
    \/ main_if_AT_None
    \/ main_if_store
    \/ main_start_loop
    \/ datagram_received
    \/ periodic_sender
    \/ keyboard_interrupt

Spec == Init /\ [][Next]_vars

SpecLoop == InitLoop /\ [][Next]_vars

\* ------------------------------------- the loop with the GET as a wait
\* whether datagram_received reaches requests.get (line 359) for the
\* datagram: it parses, and memory and disk both miss its signer
reaches_get(certs, cdir, data) ==
    /\ data.parse_ok
    /\ certs[data.signer] = NoneCert
    /\ open_rb(cdir[Hex(data.signer)]).exc = "FileNotFoundError"

\* datagram_received is called by the event loop: it runs to its end, or
\* up to requests.get (line 359), which is called without a timeout and
\* returns when the AA has answered; the handler is then inside the call
\* and the thread with it
datagram_begin ==
    /\ pc = "loop"
    /\ budget > 0
    /\ blocked = NoDatagram
    /\ \E data \in Datagrams :
         IF reaches_get(Certs, certs_dir, data)
         THEN /\ blocked' = data
              /\ UNCHANGED <<Certs, certs_dir, remote_gets, disk_reads, last>>
         ELSE /\ \E remote \in RemoteResponses : Handle(data, remote)
              /\ UNCHANGED blocked
    /\ budget' = budget - 1
    /\ UNCHANGED <<run, PrivateKey, EC, AT, Engine, hsm, files, pc, ok, store_flag,
                   exit_status, ea_requests, aa_requests, sender_alive, writer>>

\* the AA answers (or the connection fails): requests.get returns or
\* raises, and datagram_received runs on to its end
remote_responds ==
    /\ pc = "loop"
    /\ blocked # NoDatagram
    /\ \E remote \in RemoteResponses : Handle(blocked, remote)
    /\ blocked' = NoDatagram
    /\ UNCHANGED <<run, PrivateKey, EC, AT, Engine, hsm, files, pc, ok, store_flag,
                   exit_status, ea_requests, aa_requests, budget, sender_alive,
                   writer>>

\* the steps of main() before the loop
Bootstrap ==
    \/ main_load
    \/ main_if_not_ok
    \/ main_if_EC_None
    \/ main_if_AT_None
    \/ main_if_store
    \/ main_start_loop

NextFair ==
    \/ main_load
    \/ main_if_not_ok
    \/ main_if_EC_None
    \/ main_if_AT_None
    \/ main_if_store
    \/ main_start_loop
    \/ datagram_begin
    \/ remote_responds
    \/ periodic_sender
    \/ keyboard_interrupt

\* main() runs on, and the event loop runs periodic_sender when its sleep
\* is over and the thread is back in the loop; nothing obliges a datagram
\* to arrive, the AA to answer or the operator to interrupt
SpecFair ==
    /\ InitLoop
    /\ [][NextFair]_vars
    /\ WF_vars(Bootstrap)
    /\ WF_vars(periodic_sender)

\* ------------------------------------------- the methods called directly
\* a caller (a test, another program) that constructs ITSS objects over the
\* directory and calls their methods in any order, catching what they raise
InitIdentity ==
    /\ InitObject
    /\ certs_dir = NoCacheFiles
    /\ budget = MaxApiCalls
    /\ pc = "api"

Callable ==
    /\ pc = "api"
    /\ wpc = "idle"
    /\ run.pos = "idle"
    /\ budget > 0
    /\ budget' = budget - 1

\* ITSS(directory, ...).load(): load() on a fresh instance
api_load ==
    /\ Callable
    /\ LET r == load(Engine, hsm, files, NoneKey, NoneCert, NoneCert)
       IN  /\ PrivateKey' = r.PrivateKey
           /\ EC' = r.EC
           /\ AT' = r.AT
           /\ last' = Op("load", r.outcome, Raised(r.outcome = "raise"), 0,
                         NoneCert, "none", 0, 0)
    /\ Certs' = EmptyCerts
    /\ UNCHANGED <<steps, Engine, hsm, files, certs_dir, pc, ok, store_flag,
                   exit_status, counters, sender_alive, writer>>

api_generate_private_key ==
    /\ Callable
    /\ \E newkey \in Keys :
         LET g == generate_private_key(Engine, newkey, PrivateKey, EC, AT)
         IN  /\ PrivateKey' = g.PrivateKey
             /\ EC' = g.EC
             /\ AT' = g.AT
             /\ last' = Op("generate_private_key", IF g.raised THEN "raise" ELSE "ok",
                           Raised(g.raised), newkey, NoneCert, "none", 0, 0)
    /\ UNCHANGED <<steps, Engine, Certs, hsm, files, certs_dir, pc, ok, store_flag,
                   exit_status, counters, sender_alive, writer>>

\* sys.exit(1) inside a method ends the calling process
Exits(outcome) ==
    IF outcome = "exit" THEN pc' = "exited" /\ exit_status' = ExitRejected
    ELSE UNCHANGED <<pc, exit_status>>

api_enroll ==
    /\ Callable
    /\ \E response \in EnrolmentResponses :
         LET e == enroll(PrivateKey, EC, response)
         IN  /\ EC' = e.EC
             /\ ea_requests' = ea_requests + e.sent
             /\ last' = Op("enroll", e.outcome, Raised(e.outcome = "raise"), 0,
                           e.EC, response.variant, 0, 0)
             /\ Exits(e.outcome)
    /\ UNCHANGED <<steps, PrivateKey, AT, Engine, Certs, hsm, files, certs_dir, ok,
                   store_flag, aa_requests, remote_gets, disk_reads,
                   sender_alive, writer>>

api_authorize ==
    /\ Callable
    /\ \E response \in AuthorizationResponses :
         LET a == authorize(PrivateKey, EC, AT, response)
         IN  /\ AT' = a.AT
             /\ aa_requests' = aa_requests + a.sent
             /\ last' = Op("authorize", a.outcome, Raised(a.outcome = "raise"),
                           a.digest, a.AT, response.variant, 0, 0)
             /\ Exits(a.outcome)
    /\ UNCHANGED <<steps, PrivateKey, EC, Engine, Certs, hsm, files, certs_dir, ok,
                   store_flag, ea_requests, remote_gets, disk_reads,
                   sender_alive, writer>>

api_store ==
    /\ Callable
    /\ LET s == store(Engine, PrivateKey, EC, AT, files)
       IN  /\ files' = s.files
           /\ last' = Op("store", IF s.raised THEN "raise" ELSE "ok",
                         Raised(s.raised), 0, NoneCert, "none", 0, 0)
    /\ UNCHANGED <<steps, object, hsm, certs_dir, pc, ok, store_flag, exit_status,
                   counters, sender_alive, writer>>

NextIdentity ==
    \/ api_load
    \/ api_generate_private_key
    \/ api_enroll
    \/ api_authorize
    \/ api_store

SpecIdentity == InitIdentity /\ [][NextIdentity]_vars

\* ------------------------------------------------ the resolver called directly
InitResolver ==
    /\ InitObject
    /\ files = [n \in FileNames |-> Absent]
    /\ certs_dir \in InitCertsDir
    /\ budget = MaxApiCalls
    /\ pc = "api"

\* ITSS(directory, ...): a new instance over the same directory
api_new_instance ==
    /\ Callable
    /\ PrivateKey' = NoneKey
    /\ EC' = NoneCert
    /\ AT' = NoneCert
    /\ Certs' = EmptyCerts
    /\ last' = Op("ITSS", "ok", "none", 0, NoneCert, "none", 0, 0)
    /\ UNCHANGED <<steps, Engine, hsm, files, certs_dir, pc, ok, store_flag,
                   exit_status, counters, sender_alive, writer>>

api_get_certificate_by_digest ==
    /\ Callable
    /\ \E digest \in Digests, remote \in RemoteResponses :
         LET g == get_certificate_by_digest(Certs, certs_dir, digest, remote)
         IN  /\ Certs' = g.Certs
             /\ certs_dir' = g.certs_dir
             /\ remote_gets' = remote_gets + g.gets
             /\ disk_reads' = disk_reads + g.reads
             /\ last' = Op("get_certificate_by_digest",
                           IF g.raised THEN "raise" ELSE "ok", Raised(g.raised),
                           digest, g.cert,
                           IF g.gets = 0 THEN "none" ELSE answer(remote),
                           g.gets, g.reads)
    /\ UNCHANGED <<steps, PrivateKey, EC, AT, Engine, hsm, files, pc, ok, store_flag,
                   exit_status, ea_requests, aa_requests, sender_alive, writer>>

NextResolver ==
    \/ api_get_certificate_by_digest
    \/ api_new_instance

SpecResolver == InitResolver /\ [][NextResolver]_vars

\* ------------------------------------- store() beside a concurrent reader
\* store() taken one system call at a time: open(path, 'wb') truncates the
\* file, the bytes follow in DataLen writes, os.unlink removes it.  wpc is
\* the part of store() that comes next: "key", "ec", "at" before the file
\* is opened or unlinked, "key_write", "ec_write", "at_write" while it is
\* written, "idle" outside store().
FileAt(w) ==
    IF w \in {"key", "key_write"} THEN "itss.key"
    ELSE IF w \in {"ec", "ec_write"} THEN "itss.ec"
    ELSE "itss.at"

\* the bytes store() writes into the file of part w
DataAt(w) ==
    IF w \in {"key", "key_write"} THEN private_bytes(PrivateKey, StorePassword)
    ELSE IF w \in {"ec", "ec_write"} THEN EC.Data
    ELSE AT.Data

\* whether part w writes its file (else it unlinks it)
Writes(w) ==
    IF w = "key" THEN TRUE
    ELSE IF w = "ec" THEN EC # NoneCert
    ELSE AT # NoneCert

\* the part after w; after the last one store() returns
After(w) ==
    IF w \in {"key", "key_write"} THEN "ec"
    ELSE IF w \in {"ec", "ec_write"} THEN "at"
    ELSE "idle"

Returns(w) ==
    IF After(w) = "idle" THEN last' = [last EXCEPT !.outcome = "ok"]
    ELSE UNCHANGED last

\* store() is entered: lines 273-280 (private_bytes raises on a None key)
store_call ==
    /\ Callable
    /\ seen' = NoSeen
    /\ wchunk' = 0
    /\ IF Engine = EngineNone /\ PrivateKey = NoneKey
       THEN /\ wpc' = "idle"
            /\ last' = Op("store", "raise", "Exception", 0, NoneCert, "none", 0, 0)
       ELSE /\ wpc' = (IF Engine = EngineNone THEN "key" ELSE "ec")
            /\ last' = Op("store", "running", "none", 0, NoneCert, "none", 0, 0)
    /\ UNCHANGED <<steps, object, hsm, files, certs_dir, pc, ok, store_flag,
                   exit_status, counters, sender_alive>>

\* open(..., 'wb') of lines 281, 284, 289
store_open ==
    /\ wpc \in {"key", "ec", "at"}
    /\ Writes(wpc)
    /\ files' = [files EXCEPT ![FileAt(wpc)] = open_wb(@)]
    /\ wpc' = (IF wpc = "key" THEN "key_write"
               ELSE IF wpc = "ec" THEN "ec_write" ELSE "at_write")
    /\ wchunk' = 0
    /\ UNCHANGED <<steps, object, hsm, certs_dir, pc, ok, store_flag, exit_status,
                   counters, budget, sender_alive, last, seen>>

\* .write(...) of lines 281, 284, 289, one chunk
store_write ==
    /\ wpc \in {"key_write", "ec_write", "at_write"}
    /\ files' = [files EXCEPT ![FileAt(wpc)].bytes = Append(@, DataAt(wpc)[wchunk + 1])]
    /\ IF wchunk + 1 < DataLen
       THEN /\ wchunk' = wchunk + 1
            /\ UNCHANGED <<wpc, last>>
       ELSE /\ wchunk' = 0
            /\ wpc' = After(wpc)
            /\ Returns(wpc)
    /\ UNCHANGED <<steps, object, hsm, certs_dir, pc, ok, store_flag, exit_status,
                   counters, budget, sender_alive, seen>>

\* os.unlink of lines 286, 291
store_unlink ==
    /\ wpc \in {"ec", "at"}
    /\ ~Writes(wpc)
    /\ LET u == unlink(files[FileAt(wpc)])
       IN  /\ files' = [files EXCEPT ![FileAt(wpc)] = u.file]
           /\ IF u.exc # "none"
              THEN /\ wpc' = "idle"
                   /\ last' = [last EXCEPT !.outcome = "raise", !.exc = "Exception"]
              ELSE /\ wpc' = After(wpc)
                   /\ Returns(wpc)
    /\ UNCHANGED <<steps, object, hsm, certs_dir, pc, ok, store_flag, exit_status,
                   counters, budget, sender_alive, wchunk, seen>>

\* another process reads one of the files while store() runs, as load()
\* does at lines 315, 323, 330
reader_read ==
    /\ wpc # "idle"
    /\ \E name \in FileNames : seen' = [name |-> name, file |-> files[name]]
    /\ UNCHANGED <<steps, object, hsm, files, certs_dir, pc, ok, store_flag,
                   exit_status, counters, budget, sender_alive, last, wpc, wchunk>>

NextStore ==
    \/ api_load
    \/ api_generate_private_key
    \/ api_enroll
    \/ api_authorize
    \/ store_call
    \/ store_open
    \/ store_write
    \/ store_unlink
    \/ reader_read

SpecStore == InitIdentity /\ [][NextStore]_vars

\* --------------------------------- enroll() and authorize() step by step
\* enroll() or authorize() taken one stage at a time.  run.pos is the stage
\* reached: "built" after lines 85-155 (191-234), "signed" after lines
\* 158-164 (237-243), "appended" after lines 166-175 (245-254),
\* "transmitted" after line 178 (257), "idle" outside a call.  run.trace
\* lists the stages in the order they were passed.
InitRequest ==
    /\ InitObject
    /\ files = [n \in FileNames |-> Absent]
    /\ certs_dir = NoCacheFiles
    /\ budget = MaxApiCalls
    /\ pc = "api"

Responses(kind) ==
    IF kind = "enroll" THEN EnrolmentResponses ELSE AuthorizationResponses

\* the record of the call when it ends
Ended(outcome, cert, variant) ==
    last' = Op(run.kind, outcome, Raised(outcome = "raise"),
               IF run.kind = "authorize" THEN run.signer.digest ELSE 0,
               cert, variant, 0, 0)

\* lines 85-155 and 191-234: the request record is built and its first two
\* fields are encoded; public_key() raises on a None key, EC.Digest on a
\* None EC
request_build ==
    /\ Callable
    /\ \E kind \in {"enroll", "authorize"}, requestTime \in Times :
         IF (kind = "enroll" /\ PrivateKey = NoneKey)
               \/ (kind = "authorize" /\ EC = NoneCert)
         THEN /\ run' = [NoRun EXCEPT !.kind = kind, !.requestTime = requestTime]
              /\ last' = Op(kind, "raise", "Exception", 0,
                            IF kind = "enroll" THEN EC ELSE AT, "none", 0, 0)
         ELSE LET signer == IF kind = "enroll" THEN signerEnrolRequest
                            ELSE signerAuthRequest(EC)
                  tbs == IF kind = "enroll"
                         THEN enrolCertRequest(PrivateKey, requestTime)
                         ELSE authCertRequest(requestTime)
              IN  /\ run' = [NoRun EXCEPT
                                !.kind = kind, !.pos = "built",
                                !.trace = <<"built">>,
                                !.requestTime = requestTime,
                                !.signer = signer, !.tbs = tbs,
                                !.encoded = signer_block(signer) \o tbs_block(kind, tbs)]
                  /\ last' = Op(kind, "running", "none", 0, NoneCert, "none", 0, 0)
    /\ UNCHANGED <<object, hsm, files, certs_dir, pc, ok, store_flag,
                   exit_status, counters, sender_alive, writer, blocked>>

\* lines 158-164 and 237-243: PrivateKey.sign(encoded_er, ...)
request_sign ==
    /\ run.pos = "built"
    /\ IF PrivateKey = NoneKey
       THEN /\ run' = [run EXCEPT !.pos = "idle"]
            /\ Ended("raise", IF run.kind = "enroll" THEN EC ELSE AT, "none")
       ELSE /\ run' = [run EXCEPT
                          !.pos = "signed",
                          !.trace = Append(@, "signed"),
                          !.signed = signed_data(signer_block(run.signer),
                                                 tbs_block(run.kind, run.tbs)),
                          !.signature = sign(PrivateKey,
                                             signed_data(signer_block(run.signer),
                                                         tbs_block(run.kind, run.tbs)))]
            /\ UNCHANGED last
    /\ UNCHANGED <<object, hsm, files, certs_dir, pc, ok, store_flag,
                   exit_status, counters, budget, sender_alive, writer, blocked>>

\* lines 166-175 and 245-254
request_append ==
    /\ run.pos = "signed"
    /\ run' = [run EXCEPT
                 !.pos = "appended",
                 !.trace = Append(@, "appended"),
                 !.encoded = encode_der_SEQUENCE(@ \o signature_block(run.signature))]
    /\ UNCHANGED <<object, hsm, files, certs_dir, pc, ok, store_flag,
                   exit_status, counters, budget, sender_alive, last, writer,
                   blocked>>

\* lines 178 and 257: requests.put(url, data=encoded_er) returns the
\* authority's answer or raises
request_put ==
    /\ run.pos = "appended"
    /\ \E response \in Responses(run.kind) :
         /\ run' = [run EXCEPT
                      !.pos = (IF response.exc THEN "idle" ELSE "transmitted"),
                      !.trace = Append(@, "transmitted"),
                      !.sent = run.encoded,
                      !.puts = @ + 1,
                      !.response = response]
         /\ IF response.exc
            THEN Ended("raise", IF run.kind = "enroll" THEN EC ELSE AT, "none")
            ELSE UNCHANGED last
    /\ ea_requests' = ea_requests + (IF run.kind = "enroll" THEN 1 ELSE 0)
    /\ aa_requests' = aa_requests + (IF run.kind = "authorize" THEN 1 ELSE 0)
    /\ UNCHANGED <<object, hsm, files, certs_dir, pc, ok, store_flag,
                   exit_status, remote_gets, disk_reads, budget, sender_alive,
                   writer, blocked>>

\* lines 180-187 and 259-268: the answer is decoded; a refusal ends the
\* process, an acceptance sets the credential
request_decide ==
    /\ run.pos = "transmitted"
    /\ LET e == enroll(PrivateKey, EC, run.response)
           a == authorize(PrivateKey, EC, AT, run.response)
           outcome == IF run.kind = "enroll" THEN e.outcome ELSE a.outcome
       IN  /\ EC' = (IF run.kind = "enroll" THEN e.EC ELSE EC)
           /\ AT' = (IF run.kind = "authorize" THEN a.AT ELSE AT)
           /\ run' = [run EXCEPT
                        !.pos = "idle",
                        !.trace = Append(@, IF outcome = "ok" THEN "accepted"
                                            ELSE "rejected")]
           /\ Ended(outcome, IF run.kind = "enroll" THEN e.EC ELSE a.AT,
                    run.response.variant)
           /\ Exits(outcome)
    /\ UNCHANGED <<PrivateKey, Engine, Certs, hsm, files, certs_dir, ok,
                   store_flag, counters, budget, sender_alive, writer, blocked>>

NextRequest ==
    \/ api_load
    \/ api_generate_private_key
    \/ request_build
    \/ request_sign
    \/ request_append
    \/ request_put
    \/ request_decide

SpecRequest == InitRequest /\ [][NextRequest]_vars

\* ------------------------------------------------- properties of main()
\* C1: authorize() is attempted only with an EC (enroll() returned or the
\* EC was loaded; a rejected enrolment has ended the process), the loop
\* runs only with an AT, and every message periodic_sender builds is built
\* from an AT that is set.
C1_BootstrapOrder ==
    /\ last.op = "authorize" =>
          /\ last.pre.EC # NoneCert
          /\ last.prev.op = "enroll" => last.prev.outcome = "ok"
    /\ (last.op = "enroll" /\ last.outcome # "ok") => pc = "exited"
    /\ pc \in {"loop", "closed"} => (EC # NoneCert /\ AT # NoneCert)
    /\ last.op = "periodic_sender" => last.cert # NoneCert

\* a run that enrolled and was authorized, and whose sender has sent
C1_Witness ==
    /\ last.op = "periodic_sender"
    /\ last.outcome = "sent"
    /\ ea_requests = 1
    /\ aa_requests = 1

\* C3: a datagram that fails to parse, to resolve or to verify is caught
\* inside datagram_received: nothing is reported for it, the loop keeps
\* running, the periodic sender is left as it was, and the handler is
\* ready for the next datagram.
C3_InboundFailureCaught ==
    /\ [][(last'.op = "datagram_received" /\ budget' = budget - 1
              /\ last'.exc # "none")
          => /\ last'.outcome = "caught"
             /\ pc' = "loop"
             /\ exit_status' = -1
             /\ sender_alive' = sender_alive]_vars
    /\ []((last.op = "datagram_received" /\ last.exc # "none"
              /\ pc = "loop" /\ budget > 0)
          => ENABLED datagram_received)

\* a datagram is reported after an earlier one failed in the resolver, at
\* the remote fetch
C3_Witness ==
    /\ last.op = "datagram_received"
    /\ last.outcome = "reported"
    /\ last.prev.op = "datagram_received"
    /\ last.prev.exc = "ResolveError"
    /\ last.prev.gets = 1
    /\ sender_alive

\* C5: authorize() sets AT exactly when the decoded response is one of the
\* two success variants; on any other variant the process exits with a
\* non-zero status, AT is still unset and one request was sent.
C5_AuthorizeOutcome ==
    (last.op = "authorize" /\ last.variant \in AuthorizationVariants) =>
        /\ (AT # NoneCert) <=>
              last.variant \in {"successfulExplicitAuthorization",
                                "successfulImplicitAuthorization"}
        /\ AT # NoneCert => (AT = last.cert /\ pc # "exited")
        /\ AT = NoneCert =>
              /\ pc = "exited"
              /\ exit_status > 0
              /\ aa_requests = 1

C5_Witness ==
    /\ last.op = "authorize"
    /\ last.variant = "successfulImplicitAuthorization"
    /\ AT \in AllCerts
    /\ pc = "if_store"

\* C6: enroll() sets EC to the root certificate of the response exactly
\* when the decoded response is successfulEnrolment; on any other variant
\* the process exits with a non-zero status, EC is still unset, authorize()
\* is not attempted and exactly one enrolment request was sent.
C6_EnrollOutcome ==
    /\ (last.op = "enroll" /\ last.variant \in EnrolmentVariants) =>
          /\ (EC # NoneCert) <=> last.variant = "successfulEnrolment"
          /\ EC # NoneCert => (EC = last.cert /\ EC \in AllCerts /\ pc # "exited")
          /\ EC = NoneCert =>
                /\ pc = "exited"
                /\ exit_status > 0
                /\ ea_requests = 1
                /\ aa_requests = 0
    /\ (last.op = "authorize" /\ last.prev.op = "enroll") =>
          last.prev.variant = "successfulEnrolment"

C6_Witness ==
    /\ last.op = "enroll"
    /\ last.variant = "removedEnrolment"
    /\ pc = "exited"
    /\ exit_status = ExitRejected

\* C7: load() on a fresh instance never raises: it returns failure or
\* success whatever the state of the key, of itss.ec and of itss.at.
C7_LoadNeverRaises ==
    last.op = "load" => last.outcome \in {"true", "false"}

\* C12: whatever the persisted files are, the bootstrap generates a key
\* only after load() returned failure and always then, enrols only with
\* the EC unset and authorizes only with the AT unset, ends before the
\* loop only because an authority refused (or failed to answer) a request,
\* holds key, EC and AT when the loop runs, and when load() gave all three
\* makes no request and does not call store().
C12_MissingStateAcquired ==
    /\ last.op = "generate_private_key" =>
          (last.prev.op = "load" /\ last.prev.outcome = "false")
    /\ (last.op = "load" /\ last.outcome = "false") => pc = "if_not_ok"
    /\ last.op = "enroll" => last.pre.EC = NoneCert
    /\ last.op = "authorize" => last.pre.AT = NoneCert
    /\ pc = "if_AT_None" => EC # NoneCert
    /\ pc = "if_store" => AT # NoneCert
    /\ pc = "exited" =>
          (last.op \in {"enroll", "authorize"} /\ last.outcome \in {"exit", "raise"})
    /\ pc = "loop" => (PrivateKey # NoneKey /\ EC # NoneCert /\ AT # NoneCert)
    /\ (pc \in {"if_EC_None", "if_AT_None", "if_store", "identity"}
           /\ last.op = "load" /\ EC # NoneCert /\ AT # NoneCert)
          => (ea_requests = 0 /\ aa_requests = 0 /\ ~store_flag
                /\ files = last.pre.files)

\* how far main() has come
Rank(p) ==
    CASE p = "load" -> 0
      [] p = "if_not_ok" -> 1
      [] p = "if_EC_None" -> 2
      [] p = "if_AT_None" -> 3
      [] p = "if_store" -> 4
      [] p = "identity" -> 5
      [] p = "loop" -> 6
      [] OTHER -> 7

\* C18: the persisted files change only in a call of store(); store() is
\* called only with key, EC and AT all set, after the last of the
\* acquisition steps, and main() never comes back to it; and whatever the
\* files were at startup, they are the same when an enrolment or an
\* authorization was refused and the process has exited.
C18_StoreOnceAtEnd ==
    /\ [][(files' # files \/ (last'.op = "store" /\ last' # last)) =>
            /\ pc = "if_store"
            /\ last'.op = "store"
            /\ PrivateKey # NoneKey /\ EC # NoneCert /\ AT # NoneCert]_vars
    /\ [][Rank(pc') >= Rank(pc) /\ (pc = "if_store" => Rank(pc') > Rank(pc))]_vars
    /\ \A f \in InitFiles :
          (files = f) =>
              []((pc = "exited" /\ last.op \in {"enroll", "authorize"}
                    /\ last.outcome = "exit") => files = f)

\* the AA refused the authorization in a run that had generated a key and
\* obtained an EC
C18_Witness ==
    /\ pc = "exited"
    /\ last.op = "authorize"
    /\ last.outcome = "exit"
    /\ last.prev.op = "enroll"
    /\ ~ok
    /\ PrivateKey # NoneKey
    /\ EC # NoneCert
    /\ ~files["itss.ec"].exists

\* C19: when the loop runs, a run that generated its key has obtained its
\* EC and its AT itself, a run that enrolled has obtained its AT itself
\* (after the enrolment), and an authorization request carries the digest
\* of the EC that is held: no AT found on disk is used with a key or an EC
\* newer than it.
C19_CredentialsConsistent ==
    /\ pc = "loop" =>
          /\ ~ok => (ea_requests = 1 /\ aa_requests = 1)
          /\ ea_requests > 0 => aa_requests > 0
    /\ (last.op = "authorize" /\ last.outcome = "ok") =>
          (last.arg = EC.Digest /\ AT = last.cert)

\* C11: in the running loop, with the sender's task alive, whenever
\* something other than the periodic sender ran last, the periodic sender
\* eventually runs (or the loop is interrupted), whatever datagrams arrive
\* and however late, or never, the AA answers a GET.
C11_SenderNotStarved ==
    (pc = "loop" /\ sender_alive /\ budget > 0 /\ last.op # "periodic_sender")
        ~> (last.op = "periodic_sender" \/ pc # "loop" \/ budget = 0)

\* C20: while the loop runs the periodic sender's task is alive and, when
\* the thread is free, can send the next message, whatever happened to
\* the messages before it and to the datagrams received.
C20_SenderKeepsSending ==
    (pc = "loop" /\ budget > 0 /\ blocked = NoDatagram) =>
        (sender_alive /\ ENABLED periodic_sender)

\* --------------------------------------------- properties of the methods
\* C2 as stated: after any call of generate_private_key(), whatever EC and
\* AT were and whatever the backend, EC and AT are both unset.
C2_GenerateClears ==
    last.op = "generate_private_key" => (EC = NoneCert /\ AT = NoneCert)

\* C2 amended: without an engine the call returns, the key is the new one
\* and EC and AT are unset whatever they were; with an engine the call
\* raises and leaves the key, EC and AT as they were.
C2_GenerateClearsOrRaises ==
    last.op = "generate_private_key" =>
        IF Engine = EngineNone
        THEN /\ last.outcome = "ok"
             /\ PrivateKey = last.arg
             /\ EC = NoneCert
             /\ AT = NoneCert
        ELSE /\ last.outcome = "raise"
             /\ PrivateKey = last.pre.PrivateKey
             /\ EC = last.pre.EC
             /\ AT = last.pre.AT

\* a key was generated over an identity that held both an EC and an AT
C2_Witness ==
    /\ last.op = "generate_private_key"
    /\ last.outcome = "ok"
    /\ last.pre.EC # NoneCert
    /\ last.pre.AT # NoneCert

\* C4: of two consecutive successful calls of get_certificate_by_digest
\* for the same digest, the second returns the certificate the first
\* returned and makes no remote GET and opens no file.
C4_ResolveIdempotent ==
    (/\ last.op = "get_certificate_by_digest"
     /\ last.outcome = "ok"
     /\ last.prev.op = "get_certificate_by_digest"
     /\ last.prev.outcome = "ok"
     /\ last.prev.arg = last.arg)
        => /\ last.cert.Digest = last.prev.cert.Digest
           /\ last.cert.Data = last.prev.cert.Data
           /\ last.gets = 0
           /\ last.reads = 0

\* the second call follows one that fetched from the AA a certificate
\* whose own digest is not the digest asked for
C4_Witness ==
    /\ last.op = "get_certificate_by_digest"
    /\ last.outcome = "ok"
    /\ last.prev.op = "get_certificate_by_digest"
    /\ last.prev.outcome = "ok"
    /\ last.prev.arg = last.arg
    /\ last.prev.gets = 1
    /\ last.cert.Digest # last.arg

\* C13: a call of get_certificate_by_digest(d) that finds d in memory
\* opens no file and makes no GET; one that finds the file {hex(d)}.cert
\* makes no GET and, when it returns, has put d in memory; a GET is made
\* only when memory and disk both miss; and after a call that fetched the
\* certificate from the AA, d is in memory and the file {hex(d)}.cert holds
\* the certificate, so that a fresh instance finds it on disk.
C13_TierOrder ==
    [][last'.op = "get_certificate_by_digest" =>
          /\ Certs[last'.arg] # NoneCert =>
                /\ last'.gets = 0
                /\ last'.reads = 0
                /\ last'.cert = Certs[last'.arg]
                /\ certs_dir' = certs_dir
          /\ (Certs[last'.arg] = NoneCert /\ certs_dir[Hex(last'.arg)].exists) =>
                /\ last'.gets = 0
                /\ last'.outcome = "ok" => Certs'[last'.arg] = last'.cert
          /\ last'.gets = 1 =>
                (Certs[last'.arg] = NoneCert /\ ~certs_dir[Hex(last'.arg)].exists)
          /\ (last'.gets = 1 /\ last'.outcome = "ok") =>
                /\ Certs'[last'.arg] = last'.cert
                /\ certs_dir'[Hex(last'.arg)].exists
                /\ certs_dir'[Hex(last'.arg)].bytes = last'.cert.Data]_vars

\* C14: a call of get_certificate_by_digest(d) whose GET gets no answer,
\* or an answer that is no certificate, raises and returns no
\* certificate, and leaves the memory tier and the disk tier as they
\* were; the next call for d on the same instance makes a GET again.
C14_RemoteFailurePropagates ==
    /\ [][(last'.op = "get_certificate_by_digest"
              /\ last'.variant \in {"error", "garbage"})
          => /\ last'.outcome = "raise"
             /\ last'.cert = NoneCert
             /\ Certs' = Certs
             /\ certs_dir' = certs_dir]_vars
    /\ []((/\ last.op = "get_certificate_by_digest"
           /\ last.prev.op = "get_certificate_by_digest"
           /\ last.prev.arg = last.arg
           /\ last.prev.variant \in {"error", "garbage"})
          => last.gets = 1)

\* a call fetches the certificate from the AA after the call before it,
\* for the same digest, got an answer that is no certificate
C14_Witness ==
    /\ last.op = "get_certificate_by_digest"
    /\ last.outcome = "ok"
    /\ last.variant = "certificate"
    /\ last.prev.op = "get_certificate_by_digest"
    /\ last.prev.arg = last.arg
    /\ last.prev.variant = "garbage"
    /\ last.prev.outcome = "raise"
    /\ Certs[last.arg] = last.cert

\* the stages of a call that the authority answered
Stages(final) == <<"built", "signed", "appended", "transmitted", final>>

\* C15: in every call of enroll() and of authorize() the stages passed
\* are an initial part of built, signed, signature appended, transmitted,
\* accepted or rejected, each passed once; what was signed is the tagged
\* signer-identifier block followed by the tagged to-be-signed block and
\* nothing else; the signature is in the encoded request only from the
\* appending on; and one request is put, after that, carrying the two
\* blocks, the signature block and nothing else.
C15_RequestLifecycle ==
    (run.kind # "none" /\ last.op = run.kind) =>
        LET blocks == signer_block(run.signer) \o tbs_block(run.kind, run.tbs)
            n == Len(run.trace)
            has(stage) == \E i \in 1..n : run.trace[i] = stage
        IN  /\ \E final \in {"accepted", "rejected"} :
                  run.trace = SubSeq(Stages(final), 1, n)
            /\ n <= 5
            /\ has("signed") =>
                  /\ run.signed = blocks
                  /\ run.signature = sign(PrivateKey, blocks)
            /\ (has("built") /\ ~has("appended")) => run.encoded = blocks
            /\ has("appended") =>
                  run.encoded = encode_der_SEQUENCE(
                                    blocks \o signature_block(run.signature))
            /\ has("transmitted") => (run.sent = run.encoded /\ run.puts = 1)
            /\ ~has("transmitted") => (run.sent = <<>> /\ run.puts = 0)
            /\ (n = 5) <=> (run.pos = "idle" /\ last.variant # "none")

\* an authorization request was signed, completed, put and accepted
C15_Witness ==
    /\ run.kind = "authorize"
    /\ last.op = "authorize"
    /\ run.trace = Stages("accepted")
    /\ run.puts = 1
    /\ AT # NoneCert
    /\ ea_requests = 1

\* C16: in every enrolment request that was built, the expiration of the
\* to-be-signed payload is the request time plus the validity window of
\* 3600 seconds.
C16_ExpirationWindow ==
    (run.kind = "enroll" /\ last.op = "enroll" /\ run.trace # <<>>) =>
        run.tbs.expiration = run.tbs.requestTime + ValidityWindow

\* C17: every entry of the memory tier maps a digest to a certificate
\* with that digest, and after a call that fetched a certificate from the
\* AA for d the file {hex(d)}.cert holds that certificate.
C17_CacheKeyedByDigest ==
    /\ \A d \in Digests : Certs[d] # NoneCert => Certs[d].Digest = d
    /\ (last.op = "get_certificate_by_digest" /\ last.gets = 1
           /\ last.outcome = "ok")
          => /\ certs_dir[Hex(last.arg)].exists
             /\ certs_dir[Hex(last.arg)].bytes = last.cert.Data

\* C8: store() on an identity with a key completes, and afterwards itss.ec exists, holding the EC's
\* bytes, exactly when EC is set, and itss.at exists, holding the AT's
\* bytes, exactly when AT is set.
C8_StoreExact ==
    (last.op = "store" /\ PrivateKey # NoneKey) =>
        /\ last.outcome = "ok"
        /\ files["itss.ec"].exists <=> (EC # NoneCert)
        /\ EC # NoneCert => files["itss.ec"].bytes = EC.Data
        /\ files["itss.at"].exists <=> (AT # NoneCert)
        /\ AT # NoneCert => files["itss.at"].bytes = AT.Data

\* C9: store() on an identity with a key, followed by load() on a fresh
\* instance over the same (readable) directory: store() completes, load()
\* returns success and the key, the EC and the AT are those stored.
C9_StoreLoadRoundTrip ==
    (/\ last.op = "load"
     /\ last.prev.op = "store"
     /\ last.pre.PrivateKey # NoneKey
     /\ \A n \in FileNames :
           last.pre.files[n].exists => last.pre.files[n].readable)
        => /\ last.prev.outcome = "ok"
           /\ last.outcome = "true"
           /\ PrivateKey = last.pre.PrivateKey
           /\ EC = last.pre.EC
           /\ AT = last.pre.AT


\* the content store() gives the file name: the new bytes
NewBytes(name) ==
    IF name = "itss.key" THEN private_bytes(PrivateKey, StorePassword)
    ELSE IF name = "itss.ec" THEN EC.Data
    ELSE AT.Data

\* C10: whatever a concurrent reader reads from itss.key, itss.ec or
\* itss.at while store() runs is no file at all, the complete content the
\* file had before store(), or the complete content store() gives it.
C10_NoPartialRead ==
    (last.op = "store" /\ seen.name # "none") =>
        \/ ~seen.file.exists
        \/ /\ last.pre.files[seen.name].exists
           /\ seen.file.bytes = last.pre.files[seen.name].bytes
        \/ seen.file.bytes = NewBytes(seen.name)

\* the stepwise enroll() and authorize() end as the atomic ones do
RequestStepsAgree ==
    (run.kind # "none" /\ last.op = run.kind /\ run.pos = "idle"
        /\ run.trace # <<>> /\ PrivateKey # NoneKey) =>
        LET e == enroll(PrivateKey, last.pre.EC, run.response)
            a == authorize(PrivateKey, EC, last.pre.AT, run.response)
        IN  IF run.kind = "enroll"
            THEN last.outcome = e.outcome /\ EC = e.EC /\ run.puts = e.sent
            ELSE /\ last.outcome = a.outcome
                 /\ AT = a.AT
                 /\ run.puts = a.sent
                 /\ last.arg = a.digest

\* the stepwise store() ends with the files the atomic store() gives
StoreStepsAgree ==
    (last.op = "store" /\ wpc = "idle") =>
        LET s == store(Engine, last.pre.PrivateKey, last.pre.EC, last.pre.AT,
                       last.pre.files)
        IN  /\ files = s.files
            /\ (last.outcome = "raise") <=> s.raised

====
